---- MODULE Spec2Model ----
(***************************************************************************)
(* Restaurant ordering backend.                                            *)
(*                                                                         *)
(*   src/api/server.js     JSON-file variant with members, loyalty points, *)
(*                         orders.json and a validated status PATCH        *)
(*   src/unnamed/part_003  in-memory variant: menuData, orders, server     *)
(*                         side price recomputation, takeout ticket count  *)
(*                                                                         *)
(* Every handler on the JSON files and on the arrays is synchronous, so one *)
(* request is one atomic step; PUT /api/menu/:id in DB mode awaits two     *)
(* queries and is two steps.  Numbers are integers (JSON numbers with a fraction are outside   *)
(* the model).  A JSON value that the code passes through Number() is kept *)
(* with its type, so that the conversion is modelled by what it does.      *)
(***************************************************************************)
EXTENDS Integers, Sequences, FiniteSets, TLC

VARIABLES
    membersFile,   \* server.js: contents of members.json
    ordersFile,    \* server.js: contents of orders.json
    menuFile,      \* server.js: contents of menu.json
    menuItems,     \* server.js: the rows of table menu_items (DB mode)
    puts,          \* server.js: the PUT /api/menu/:id requests in DB mode
    menuData,      \* part_003: let menuData = [...]
    orders,        \* part_003: let orders = []
    now,           \* the clock read by Date.now() / new Date(), in ms
    req,           \* history: the request handled last
    res,           \* history: the response sent last
    membersBefore  \* history: members.json as the last request found it

vars == <<membersFile, ordersFile, menuFile, menuItems, puts, menuData, orders,
          now, req, res, membersBefore>>

----------------------------------------------------------------------------
(* Bounds of the model *)

\* orders.json (server.js) and the orders array (part_003) hold at most this
\* many orders
MaxOrders == 2
\* the clock takes the values 0 .. MaxClock
MaxClock == 1
\* ids handed out by POST /api/menu stay at or below this
MaxMenuId == 2
\* at most this many PUT /api/menu/:id requests are made in DB mode
MaxPuts == 2

----------------------------------------------------------------------------
(* JSON values as the handlers receive them in req.body *)

Absent == "<undefined>"          \* a field the body does not carry
NullStr == "<null>"              \* a stored null in a string-valued field
Null == <<>>                     \* a stored null in a number- or object-valued field
Some(v) == <<v>>

JNum(n) == [t |-> "num", n |-> n, s |-> ""]
JStr(s) == [t |-> "str", n |-> 0, s |-> s]
JUndef == [t |-> "undef", n |-> 0, s |-> ""]
JBool(b) == [t |-> "bool", n |-> IF b THEN 1 ELSE 0, s |-> ""]
JNull == [t |-> "null", n |-> 0, s |-> ""]

\* !!v : undefined, null, false, 0 and "" are falsy
Truthy(v) ==
    IF v.t \in {"undef", "null"} THEN FALSE
    ELSE IF v.t = "str" THEN v.s # ""
    ELSE v.n # 0

\* !x for a string-valued field: undefined and "" are falsy
Falsy(s) == s \in {Absent, ""}

Min(a, b) == IF a <= b THEN a ELSE b

\* Number(v) for the JSON values of the model: a number is itself, true is 1,
\* false, null and "" are 0, a decimal string is its value, undefined and any
\* other string are NaN
DecimalStrings == {"2", "250"}
DecimalValue(s) == IF s = "2" THEN 2 ELSE 250
ToNumber(v) ==
    IF v.t \in {"num", "bool"} THEN [nan |-> FALSE, n |-> v.n]
    ELSE IF v.t = "null" THEN [nan |-> FALSE, n |-> 0]
    ELSE IF v.t = "str" /\ v.s = "" THEN [nan |-> FALSE, n |-> 0]
    ELSE IF v.t = "str" /\ v.s \in DecimalStrings
         THEN [nan |-> FALSE, n |-> DecimalValue(v.s)]
    ELSE [nan |-> TRUE, n |-> 0]

\* Number(v) || 0 : NaN and 0 are falsy
NumberOr0(v) == IF ToNumber(v).nan THEN 0 ELSE ToNumber(v).n

----------------------------------------------------------------------------
(* src/api/server.js *)

POINT_PER_AMOUNT == 100
POINT_VALUE == 1

VALID_STATUS == {"PENDING_PAYMENT", "PAID", "COOKING", "READY", "DONE"}

\* members.find(m => m.phone === phone): index of the first match, 0 for none
MemberIndex(members, phone) ==
    IF \E i \in 1..Len(members) : members[i].phone = phone
    THEN CHOOSE i \in 1..Len(members) :
            /\ members[i].phone = phone
            /\ \A j \in 1..(i - 1) : members[j].phone # phone
    ELSE 0

\* "O" + Date.now()
generateOrderId(t) == <<"O", t>>

\* `${h}${m}${rand}` with h and m padded to two digits and rand in 10..99: the
\* six-digit text is kept as the number it spells
generateTicketNo(t, rand) ==
    ((t \div 3600000) % 24) * 10000 + ((t \div 60000) % 60) * 100 + rand

\* an items check that only notices a missing field
ItemsRejectedMissingOnly(items) == items.t = "undef"

\* !items || !Array.isArray(items) || items.length === 0
ItemsRejected(items) == items.t # "arr" \/ Len(items.a) = 0

\* const originalTotal = Number(totalAmount) || 0
OriginalTotal(body) == NumberOr0(body.totalAmount)

\* usePoints = 0 is the destructuring default of an undefined field
WantUse(body) ==
    IF body.usePoints.t = "undef" THEN 0 ELSE NumberOr0(body.usePoints)

\* a redemption that takes whatever the request asks for
UsedPointsUncapped(wantUse, points, finalTotal) == wantUse

\* a redemption that forgets the cap by the amount due
UsedPointsNoTotalCap(wantUse, points, finalTotal) == Min(wantUse, points)

\* a redemption that forgets the cap by the member's balance
UsedPointsNoBalanceCap(wantUse, points, finalTotal) ==
    Min(wantUse, finalTotal \div POINT_VALUE)

\* maxUsable = Math.min(member.points, Math.floor(finalTotal / POINT_VALUE));
\* usedPoints = Math.min(wantUse, maxUsable)
UsedPoints(wantUse, points, finalTotal) ==
    Min(wantUse, Min(points, finalTotal \div POINT_VALUE))

\* an accrual that forgets the finalTotal > 0 guard
EarnedPointsUnguarded(finalTotal) == finalTotal \div POINT_PER_AMOUNT

\* if (finalTotal > 0) earnedPoints = Math.floor(finalTotal / POINT_PER_AMOUNT)
EarnedPoints(finalTotal) ==
    IF finalTotal > 0 THEN finalTotal \div POINT_PER_AMOUNT ELSE 0

\* an initial status that trusts the cashier whatever the payment method
InitialStatusAnyCashier(via, paymentMethod) ==
    IF via = "CASHIER" THEN "PAID" ELSE "PENDING_PAYMENT"

\* PENDING_PAYMENT unless the cashier took CASH, CARD or LINEPAY
InitialStatus(via, paymentMethod) ==
    IF via = "CASHIER" /\ paymentMethod \in {"CASH", "CARD", "LINEPAY"}
    THEN "PAID" ELSE "PENDING_PAYMENT"

\* a table kept whatever the mode
StoredTableAlways(mode, table) == IF Falsy(table) THEN "" ELSE table

\* table: mode === "dinein" ? (table || "") : null, the same in both variants
StoredTable(mode, table) ==
    IF mode = "dinein" THEN (IF Falsy(table) THEN "" ELSE table) ELSE NullStr

\* x || null for a string-valued field
OrNull(s) == IF Falsy(s) THEN NullStr ELSE s

\* The whole of POST /api/order: the files and the response it leaves
OrderHandler(members, stored, body, t, rand) ==
    IF ItemsRejected(body.items)
    THEN [members |-> members, orders |-> stored,
          res |-> [code |-> 400, body |-> Null]]
    ELSE
    LET originalTotal == OriginalTotal(body)
        named == ~Falsy(body.memberPhone)
        found == MemberIndex(members, body.memberPhone)
        loaded == IF named /\ found = 0
                  THEN Append(members,
                         [phone |-> body.memberPhone, name |-> "", points |-> 0])
                  ELSE members
        idx == IF named THEN MemberIndex(loaded, body.memberPhone) ELSE 0
        beforePoints == IF named THEN loaded[idx].points ELSE 0
        usedPoints == IF named
                      THEN UsedPoints(WantUse(body), beforePoints, originalTotal)
                      ELSE 0
        finalTotal == IF usedPoints > 0
                      THEN originalTotal - usedPoints * POINT_VALUE
                      ELSE originalTotal
        spent == IF usedPoints > 0 THEN beforePoints - usedPoints ELSE beforePoints
        earnedPoints == EarnedPoints(finalTotal)
        afterPoints == spent + earnedPoints
        saved == IF named
                 THEN [loaded EXCEPT ![idx].points = afterPoints]
                 ELSE members
        orderId == generateOrderId(t)
        ticketNo == IF body.mode = "takeout"
                    THEN Some(generateTicketNo(t, rand)) ELSE Null
        order == [orderId |-> orderId,
                  items |-> body.items.a,
                  mode |-> OrNull(body.mode),
                  table |-> StoredTable(body.mode, body.table),
                  totalAmount |-> originalTotal,
                  finalTotal |-> finalTotal,
                  memberPhone |-> IF named THEN body.memberPhone ELSE NullStr,
                  usedPoints |-> usedPoints,
                  earnedPoints |-> earnedPoints,
                  status |-> InitialStatus(body.via, body.paymentMethod),
                  createdAt |-> t,
                  ticketNo |-> ticketNo,
                  via |-> OrNull(body.via),
                  paymentMethod |-> OrNull(body.paymentMethod),
                  cashReceived |-> NumberOr0(body.cashReceived)]
    IN  [members |-> saved,
         orders |-> Append(stored, order),
         res |-> [code |-> 200,
                  body |-> Some([orderId |-> orderId,
                                 finalTotal |-> finalTotal,
                                 member |-> IF named
                                    THEN Some([phone |-> body.memberPhone,
                                               beforePoints |-> beforePoints,
                                               usedPoints |-> usedPoints,
                                               earnedPoints |-> earnedPoints,
                                               afterPoints |-> afterPoints])
                                    ELSE Null])]]

\* app.post("/api/order", ...)
PostOrder(body, rand) ==
    LET out == OrderHandler(membersFile, ordersFile, body, now, rand) IN
    /\ out.res.code = 200 => Len(ordersFile) < MaxOrders
    /\ membersFile' = out.members
    /\ ordersFile' = out.orders
    /\ req' = [op |-> "order", body |-> body]
    /\ res' = out.res
    /\ membersBefore' = membersFile
    /\ UNCHANGED <<menuItems, puts, menuFile, menuData, orders, now>>

\* a lookup that creates a record without searching for the phone first
MemberLookupAlwaysPush(phone, name) ==
    /\ req' = [op |-> "lookup", body |-> [phone |-> phone, name |-> name]]
    /\ IF Falsy(phone)
       THEN /\ res' = [code |-> 400, body |-> Null]
            /\ UNCHANGED membersFile
       ELSE LET m == [phone |-> phone,
                      name |-> IF Falsy(name) THEN "" ELSE name,
                      points |-> 0]
            IN /\ membersFile' = Append(membersFile, m)
               /\ res' = [code |-> 200, body |-> Some(m)]
    /\ membersBefore' = membersFile
    /\ UNCHANGED <<menuItems, puts, menuFile, ordersFile, menuData, orders, now>>

\* a lookup that takes the supplied name for a member it already has
MemberLookupRenames(phone, name) ==
    /\ req' = [op |-> "lookup", body |-> [phone |-> phone, name |-> name]]
    /\ IF Falsy(phone)
       THEN /\ res' = [code |-> 400, body |-> Null]
            /\ UNCHANGED membersFile
       ELSE LET found == MemberIndex(membersFile, phone)
                m == [phone |-> phone,
                      name |-> IF Falsy(name) THEN "" ELSE name,
                      points |-> 0]
            IN IF found = 0
               THEN /\ membersFile' = Append(membersFile, m)
                    /\ res' = [code |-> 200, body |-> Some(m)]
               ELSE /\ membersFile' = [membersFile EXCEPT ![found].name = m.name]
                    /\ res' = [code |-> 200, body |-> Some(membersFile'[found])]
    /\ membersBefore' = membersFile
    /\ UNCHANGED <<menuItems, puts, menuFile, ordersFile, menuData, orders, now>>

\* app.post("/api/member/lookup", ...)
MemberLookup(phone, name) ==
    /\ req' = [op |-> "lookup", body |-> [phone |-> phone, name |-> name]]
    /\ IF Falsy(phone)
       THEN /\ res' = [code |-> 400, body |-> Null]
            /\ UNCHANGED membersFile
       ELSE LET found == MemberIndex(membersFile, phone)
                m == [phone |-> phone,
                      name |-> IF Falsy(name) THEN "" ELSE name,
                      points |-> 0]
            IN IF found = 0
               THEN /\ membersFile' = Append(membersFile, m)
                    /\ res' = [code |-> 200, body |-> Some(m)]
               ELSE /\ UNCHANGED membersFile
                    /\ res' = [code |-> 200, body |-> Some(membersFile[found])]
    /\ membersBefore' = membersFile
    /\ UNCHANGED <<menuItems, puts, menuFile, ordersFile, menuData, orders, now>>

\* a PATCH that forgets the VALID_STATUS check
StatusValidAny(status) == TRUE

\* VALID_STATUS.includes(status)
StatusValid(status) == status \in VALID_STATUS

\* orders.findIndex(o => String(o.orderId) === String(orderId)), 0 for -1
OrderIndex(stored, orderId) ==
    IF \E i \in 1..Len(stored) : stored[i].orderId = orderId
    THEN CHOOSE i \in 1..Len(stored) :
            /\ stored[i].orderId = orderId
            /\ \A j \in 1..(i - 1) : stored[j].orderId # orderId
    ELSE 0

\* a PATCH that writes the status into the order before it validates it
PatchStatusWritesFirst(orderId, status) ==
    LET idx == OrderIndex(ordersFile, orderId)
        written == IF idx = 0 THEN ordersFile
                   ELSE [ordersFile EXCEPT ![idx].status = status]
    IN
    /\ req' = [op |-> "patch", body |-> [orderId |-> orderId, status |-> status]]
    /\ ordersFile' = written
    /\ IF Falsy(status) \/ ~StatusValid(status)
       THEN res' = [code |-> 400, body |-> Null]
       ELSE IF idx = 0
            THEN res' = [code |-> 404, body |-> Null]
            ELSE res' = [code |-> 200, body |-> Some(written[idx])]
    /\ membersBefore' = membersFile
    /\ UNCHANGED <<menuItems, puts, menuFile, membersFile, menuData, orders, now>>

\* a PATCH that gives the status to every stored order
PatchStatusEveryOrder(orderId, status) ==
    /\ req' = [op |-> "patch", body |-> [orderId |-> orderId, status |-> status]]
    /\ IF Falsy(status) \/ ~StatusValid(status)
       THEN /\ res' = [code |-> 400, body |-> Null]
            /\ UNCHANGED ordersFile
       ELSE LET idx == OrderIndex(ordersFile, orderId) IN
            IF idx = 0
            THEN /\ res' = [code |-> 404, body |-> Null]
                 /\ UNCHANGED ordersFile
            ELSE /\ ordersFile' = [i \in 1..Len(ordersFile) |->
                                     [ordersFile[i] EXCEPT !.status = status]]
                 /\ res' = [code |-> 200, body |-> Some(ordersFile'[idx])]
    /\ membersBefore' = membersFile
    /\ UNCHANGED <<menuItems, puts, menuFile, membersFile, menuData, orders, now>>

\* app.patch("/api/orders/:orderId/status", ...)
PatchStatus(orderId, status) ==
    /\ req' = [op |-> "patch", body |-> [orderId |-> orderId, status |-> status]]
    /\ IF Falsy(status) \/ ~StatusValid(status)
       THEN /\ res' = [code |-> 400, body |-> Null]
            /\ UNCHANGED ordersFile
       ELSE LET idx == OrderIndex(ordersFile, orderId) IN
            IF idx = 0
            THEN /\ res' = [code |-> 404, body |-> Null]
                 /\ UNCHANGED ordersFile
            ELSE /\ ordersFile' = [ordersFile EXCEPT ![idx].status = status]
                 /\ res' = [code |-> 200, body |-> Some(ordersFile'[idx])]
    /\ membersBefore' = membersFile
    /\ UNCHANGED <<menuItems, puts, menuFile, membersFile, menuData, orders, now>>

\* the clock advances between requests, or does not
Tick ==
    /\ now < MaxClock
    /\ now' = now + 1
    /\ UNCHANGED <<menuItems, puts, menuFile, membersFile, ordersFile, menuData, orders, req, res, membersBefore>>


(* src/api/server.js: the menu in JSON mode (pool is null) *)

\* the tags of a request: an array, a text, or no field
TagsArray(a) == [t |-> "arr", a |-> a, s |-> ""]
TagsText(s) == [t |-> "str", a |-> <<>>, s |-> s]
NoTags == [t |-> "undef", a |-> <<>>, s |-> ""]

\* tags.split(/[;,、，]/).map(t => t.trim()).filter(Boolean) for the texts of
\* the model: "hot, new", the empty text, a single word
SplitTags(s) ==
    IF s = "hot, new" THEN <<"hot", "new">>
    ELSE IF s = "" THEN <<>>
    ELSE <<s>>

\* Array.isArray(tags) ? tags : typeof tags === "string" ? split : []
TagsOf(tags) ==
    IF tags.t = "arr" THEN tags.a
    ELSE IF tags.t = "str" THEN SplitTags(tags.s)
    ELSE <<>>

\* menu.findIndex(i => Number(i.id) === id), 0 for -1; id is Number(req.params.id)
MenuFileIndex(menu, id) ==
    IF \E i \in 1..Len(menu) : menu[i].id = id
    THEN CHOOSE i \in 1..Len(menu) :
            /\ menu[i].id = id
            /\ \A j \in 1..(i - 1) : menu[j].id # id
    ELSE 0

\* Math.max(...menu.map(i => Number(i.id) || 0))
RECURSIVE MaxId(_)
MaxId(menu) ==
    IF Len(menu) = 0 THEN 0
    ELSE LET rest == MaxId(SubSeq(menu, 1, Len(menu) - 1))
             id == menu[Len(menu)].id
         IN IF id > rest THEN id ELSE rest

\* a new id taken from the number of items
NewMenuIdByLength(menu) == Len(menu) + 1

\* const newId = menu.length ? Math.max(...) + 1 : 1
NewMenuId(menu) == IF Len(menu) > 0 THEN MaxId(menu) + 1 ELSE 1

\* a listing that shows only the items whose isActive is true
RECURSIVE VisibleMenuActiveOnly(_, _)
VisibleMenuActiveOnly(menu, showAll) ==
    IF showAll \/ Len(menu) = 0 THEN menu
    ELSE LET rest == VisibleMenuActiveOnly(SubSeq(menu, 1, Len(menu) - 1), showAll)
             item == menu[Len(menu)]
         IN IF item.isActive = Some(TRUE) THEN Append(rest, item) ELSE rest

\* if (!showAll) menu = menu.filter(item => item.isActive !== false)
RECURSIVE VisibleMenu(_, _)
VisibleMenu(menu, showAll) ==
    IF showAll \/ Len(menu) = 0 THEN menu
    ELSE LET rest == VisibleMenu(SubSeq(menu, 1, Len(menu) - 1), showAll)
             item == menu[Len(menu)]
         IN IF item.isActive # Some(FALSE) THEN Append(rest, item) ELSE rest

\* app.get("/api/menu", ...): showAll = includeInactive === "true"
GetMenu(includeInactive) ==
    /\ req' = [op |-> "getmenu", body |-> [includeInactive |-> includeInactive]]
    /\ res' = [code |-> 200,
               body |-> Some(VisibleMenu(menuFile, includeInactive = "true"))]
    /\ UNCHANGED <<menuItems, puts, menuFile, membersFile, ordersFile, menuData, orders, now,
                   membersBefore>>

\* app.post("/api/menu", ...)
PostMenu(body) ==
    LET priceNumber == ToNumber(body.price)
        item == [id |-> NewMenuId(menuFile),
                 name |-> body.name,
                 price |-> priceNumber.n,
                 category |-> body.category,
                 image |-> body.image,
                 description |-> IF Falsy(body.description) THEN ""
                                 ELSE body.description,
                 tags |-> Some(TagsOf(body.tags)),
                 spicy |-> Some(Truthy(body.spicy)),
                 isHot |-> Some(Truthy(body.isHot)),
                 isActive |-> IF body.isActive.t = "undef" THEN Some(TRUE)
                              ELSE Some(Truthy(body.isActive))]
        rejected == Falsy(body.name) \/ priceNumber.nan
    IN
    /\ ~rejected => NewMenuId(menuFile) <= MaxMenuId
    /\ req' = [op |-> "postmenu", body |-> body]
    /\ IF rejected
       THEN /\ res' = [code |-> 400, body |-> Null]
            /\ UNCHANGED menuFile
       ELSE /\ menuFile' = Append(menuFile, item)
            /\ res' = [code |-> 201, body |-> Some(item)]
    /\ UNCHANGED <<menuItems, puts, membersFile, ordersFile, menuData, orders, now, membersBefore>>

\* a price that falls to 0 when the body carries none or one that is NaN
UpdatedPriceOr0(oldPrice, price) == NumberOr0(price)

\* ...(price !== undefined && !Number.isNaN(Number(price)) && { price: Number(price) })
UpdatedPrice(oldPrice, price) ==
    IF price.t # "undef" /\ ~ToNumber(price).nan
    THEN ToNumber(price).n ELSE oldPrice

\* ...(flag !== undefined && { flag: !!flag })
UpdatedFlag(oldFlag, flag) ==
    IF flag.t # "undef" THEN Some(Truthy(flag)) ELSE oldFlag

\* ...(text !== undefined && { text })
UpdatedText(oldText, text) == IF text # Absent THEN text ELSE oldText

\* app.put("/api/menu/:id", ...)
PutMenu(id, body) ==
    LET idx == MenuFileIndex(menuFile, id)
        old == menuFile[idx]
        updated == [id |-> old.id,
                    name |-> IF Falsy(body.name) THEN old.name ELSE body.name,
                    price |-> UpdatedPrice(old.price, body.price),
                    category |-> UpdatedText(old.category, body.category),
                    image |-> UpdatedText(old.image, body.image),
                    description |-> UpdatedText(old.description, body.description),
                    tags |-> IF body.tags.t # "undef"
                             THEN Some(TagsOf(body.tags)) ELSE old.tags,
                    spicy |-> UpdatedFlag(old.spicy, body.spicy),
                    isHot |-> UpdatedFlag(old.isHot, body.isHot),
                    isActive |-> UpdatedFlag(old.isActive, body.isActive)]
    IN
    /\ req' = [op |-> "putmenu", body |-> [id |-> id, fields |-> body]]
    /\ IF idx = 0
       THEN /\ res' = [code |-> 404, body |-> Null]
            /\ UNCHANGED menuFile
       ELSE /\ menuFile' = [menuFile EXCEPT ![idx] = updated]
            /\ res' = [code |-> 200, body |-> Some(updated)]
    /\ UNCHANGED <<menuItems, puts, membersFile, ordersFile, menuData, orders, now, membersBefore>>

\* app.delete("/api/menu/:id", ...): menu.splice(idx, 1)
DeleteMenu(id) ==
    LET idx == MenuFileIndex(menuFile, id) IN
    /\ req' = [op |-> "deletemenu", body |-> [id |-> id]]
    /\ IF idx = 0
       THEN /\ res' = [code |-> 404, body |-> Null]
            /\ UNCHANGED menuFile
       ELSE /\ menuFile' = SubSeq(menuFile, 1, idx - 1)
                              \o SubSeq(menuFile, idx + 1, Len(menuFile))
            /\ res' = [code |-> 200, body |-> Null]
    /\ UNCHANGED <<menuItems, puts, membersFile, ordersFile, menuData, orders, now, membersBefore>>


(* src/api/server.js: PUT /api/menu/:id in DB mode (pool is set) *)

\* a request slot that has not been used
IdlePut == [pc |-> "idle", id |-> 0, body |-> Null, old |-> Null,
            res |-> [code |-> 0, body |-> Null]]
NoPuts == [r \in 1..MaxPuts |-> IdlePut]

\* WHERE id = $1: the index of the row with that id, 0 for no row
RowIndex(rows, id) ==
    IF \E i \in 1..Len(rows) : rows[i].id = id
    THEN CHOOSE i \in 1..Len(rows) : rows[i].id = id
    ELSE 0

\* tags.join(",") for the arrays of the model: none, one tag, "hot" and "new"
JoinTags(a) ==
    IF Len(a) = 0 THEN "" ELSE IF Len(a) = 1 THEN a[1] ELSE "hot,new"

\* tagsToUse and tagsValue: the request's tags or the old text, an array
\* joined, a text that is not blank trimmed, null otherwise (the texts of the
\* model carry no outer blanks)
TagsValue(oldTags, tags) ==
    IF tags.t = "arr" THEN JoinTags(tags.a)
    ELSE IF tags.t = "str" THEN (IF tags.s = "" THEN NullStr ELSE tags.s)
    ELSE IF oldTags \in {NullStr, ""} THEN NullStr ELSE oldTags

\* x !== undefined ? x : old, then (... || null) in the UPDATE's parameters
TextOrNull(oldText, text) ==
    LET new == IF text # Absent THEN text ELSE oldText IN
    IF new \in {"", NullStr} THEN NullStr ELSE new

\* the values of the UPDATE: every column, taken from the body where it
\* carries the field and from the row the SELECT returned where it does not
MergedRow(old, body) ==
    [id |-> old.id,
     name |-> IF Falsy(body.name) THEN old.name ELSE body.name,
     price |-> UpdatedPrice(old.price, body.price),
     category |-> TextOrNull(old.category, body.category),
     image |-> TextOrNull(old.image, body.image),
     description |-> TextOrNull(old.description, body.description),
     tags |-> TagsValue(old.tags, body.tags),
     spicy |-> IF body.spicy.t # "undef" THEN Truthy(body.spicy) ELSE old.spicy,
     is_hot |-> IF body.isHot.t # "undef" THEN Truthy(body.isHot) ELSE old.is_hot,
     is_active |-> IF body.isActive.t # "undef" THEN Truthy(body.isActive)
                   ELSE old.is_active]

\* the JSON the handler answers with for the row the UPDATE returned
RowJson(row) ==
    [id |-> row.id, name |-> row.name, price |-> row.price,
     category |-> row.category, image |-> row.image,
     description |-> IF row.description = NullStr THEN "" ELSE row.description,
     tags |-> IF row.tags \in {NullStr, ""} THEN <<>> ELSE SplitTags(row.tags),
     spicy |-> row.spicy, isHot |-> row.is_hot, isActive |-> row.is_active]

\* app.put("/api/menu/:id", ...) up to its first await: the SELECT has run
PutSelect(r, id, body) ==
    LET idx == RowIndex(menuItems, id) IN
    /\ puts[r].pc = "idle"
    /\ puts' = [puts EXCEPT ![r] =
                  IF idx = 0
                  THEN [pc |-> "done", id |-> id, body |-> Some(body),
                        old |-> Null, res |-> [code |-> 404, body |-> Null]]
                  ELSE [pc |-> "selected", id |-> id, body |-> Some(body),
                        old |-> Some(menuItems[idx]),
                        res |-> [code |-> 0, body |-> Null]]]
    /\ UNCHANGED <<menuItems, menuFile, membersFile, ordersFile, menuData, orders,
                   now, req, res, membersBefore>>

\* ... and from there to its end: the merge, the UPDATE and the answer; an
\* UPDATE that matches no row returns no row, and reading it throws (500)
PutUpdate(r) ==
    LET idx == RowIndex(menuItems, puts[r].id)
        row == MergedRow(puts[r].old[1], puts[r].body[1])
    IN
    /\ puts[r].pc = "selected"
    /\ IF idx = 0
       THEN /\ UNCHANGED menuItems
            /\ puts' = [puts EXCEPT ![r].pc = "done",
                                    ![r].res = [code |-> 500, body |-> Null]]
       ELSE /\ menuItems' = [menuItems EXCEPT ![idx] = row]
            /\ puts' = [puts EXCEPT ![r].pc = "done",
                                    ![r].res = [code |-> 200,
                                                body |-> Some(RowJson(row))]]
    /\ UNCHANGED <<menuFile, membersFile, ordersFile, menuData, orders, now, req,
                   res, membersBefore>>


----------------------------------------------------------------------------
(* src/unnamed/part_003: the in-memory variant *)

\* let menuData = [...] (the names are transliterated)
InitialMenu ==
    << [id |-> 1, name |-> "beef noodles", price |-> 150, category |-> "main", image |-> ""],
       [id |-> 2, name |-> "plain noodles", price |-> 80, category |-> "main", image |-> ""],
       [id |-> 3, name |-> "fried chicken", price |-> 60, category |-> "side", image |-> ""],
       [id |-> 4, name |-> "braised egg", price |-> 20, category |-> "side", image |-> ""],
       [id |-> 5, name |-> "bubble tea", price |-> 60, category |-> "drink", image |-> ""],
       [id |-> 6, name |-> "black tea", price |-> 30, category |-> "drink", image |-> ""] >>

\* menuData.find(m => m.id === id) for a JSON value id: index of the first item
\* whose id is that number, 0 for none (=== never equates a string and a number)
MenuIndex(menu, id) ==
    IF id.t = "num" /\ \E i \in 1..Len(menu) : menu[i].id = id.n
    THEN CHOOSE i \in 1..Len(menu) :
            /\ menu[i].id = id.n
            /\ \A j \in 1..(i - 1) : menu[j].id # id.n
    ELSE 0

\* `ORD${y}${m}${d}${t}`, t = String(now.getTime()).slice(-5): the day and the
\* last five digits of the clock (the clock counts from a midnight, which is a
\* multiple of 100000 ms)
generateOrderId3(t) == <<"ORD", t \div 86400000, t % 100000>>

\* a line amount that forgets the surcharge
LineAmountNoExtra(menu, item) ==
    LET idx == MenuIndex(menu, item.itemId) IN
    IF idx = 0 THEN 0 ELSE menu[idx].price * NumberOr0(item.qty)

\* one step of the reduce: sum + (menuItem.price + extra) * qty, or sum alone
\* for an itemId the menu does not hold
LineAmount(menu, item) ==
    LET idx == MenuIndex(menu, item.itemId) IN
    IF idx = 0 THEN 0
    ELSE (menu[idx].price + NumberOr0(item.extraPricePerUnit))
            * NumberOr0(item.qty)

\* items.reduce((sum, item) => ..., 0)
RECURSIVE SumLines(_, _)
SumLines(menu, items) ==
    IF Len(items) = 0 THEN 0
    ELSE SumLines(menu, SubSeq(items, 1, Len(items) - 1))
            + LineAmount(menu, items[Len(items)])

\* a total taken from the request, as src/api/server.js takes it
TrustedTotal(menu, body) == NumberOr0(body.totalAmount)

\* const serverCalcTotal = items.reduce(...): the total of the request's lines
ServerCalcTotal(menu, body) == SumLines(menu, body.items.a)

\* a ticket number taken from the length of the whole array
NextTicketNoByLength(stored) == Len(stored) + 1

\* orders.filter(o => o.mode === "takeout").length + 1
NextTicketNo(stored) ==
    Cardinality({i \in 1..Len(stored) : stored[i].mode = "takeout"}) + 1

\* the line item as it is stored on the order
StoredItem(menu, item) ==
    LET idx == MenuIndex(menu, item.itemId) IN
    [itemId |-> item.itemId,
     name |-> item.name,
     basePrice |-> IF idx # 0 THEN JNum(menu[idx].price) ELSE item.basePrice,
     extraPricePerUnit |-> NumberOr0(item.extraPricePerUnit),
     qty |-> item.qty,
     removeKeys |-> item.removeKeys,
     addKeys |-> item.addKeys]

\* a total check that lets a total of zero through
TotalRejectedNegativeOnly(total) == total < 0

\* if (serverCalcTotal <= 0) return res.status(400)
TotalRejected(total) == total <= 0

\* The whole of POST /api/order of part_003: the array and the response it leaves
OrderHandler3(menu, stored, body, t) ==
    IF Falsy(body.mode) \/ ItemsRejected(body.items)
    THEN [orders |-> stored, res |-> [code |-> 400, body |-> Null]]
    ELSE IF body.mode # "dinein" /\ body.mode # "takeout"
    THEN [orders |-> stored, res |-> [code |-> 400, body |-> Null]]
    ELSE
    LET items == body.items.a
        serverCalcTotal == ServerCalcTotal(menu, body)
    IN
    IF TotalRejected(serverCalcTotal)
    THEN [orders |-> stored, res |-> [code |-> 400, body |-> Null]]
    ELSE
    LET ticketNo == IF body.mode = "takeout"
                    THEN Some(NextTicketNo(stored)) ELSE Null
        orderId == generateOrderId3(t)
        newOrder == [orderId |-> orderId,
                     ticketNo |-> ticketNo,
                     mode |-> body.mode,
                     table |-> StoredTable(body.mode, body.table),
                     items |-> [i \in 1..Len(items) |-> StoredItem(menu, items[i])],
                     totalAmount |-> serverCalcTotal,
                     status |-> "PENDING_PAYMENT",
                     createdAt |-> t,
                     updatedAt |-> Null]
    IN [orders |-> Append(stored, newOrder),
        res |-> [code |-> 200,
                 body |-> Some([orderId |-> orderId, ticketNo |-> ticketNo])]]

\* app.post("/api/order", ...) of part_003
PostOrder3(body) ==
    LET out == OrderHandler3(menuData, orders, body, now) IN
    /\ out.res.code = 200 => Len(orders) < MaxOrders
    /\ orders' = out.orders
    /\ req' = [op |-> "order", body |-> body]
    /\ res' = out.res
    /\ UNCHANGED <<menuItems, puts, menuFile, membersFile, ordersFile, menuData, now, membersBefore>>

\* orders.find(o => o.orderId === orderId), 0 for undefined
OrderIndex3(stored, orderId) ==
    IF \E i \in 1..Len(stored) : stored[i].orderId = orderId
    THEN CHOOSE i \in 1..Len(stored) :
            /\ stored[i].orderId = orderId
            /\ \A j \in 1..(i - 1) : stored[j].orderId # orderId
    ELSE 0

\* app.patch("/api/orders/:orderId/status", ...) of part_003
PatchStatus3(orderId, status) ==
    /\ req' = [op |-> "patch", body |-> [orderId |-> orderId, status |-> status]]
    /\ IF Falsy(status)
       THEN /\ res' = [code |-> 400, body |-> Null]
            /\ UNCHANGED orders
       ELSE LET idx == OrderIndex3(orders, orderId) IN
            IF idx = 0
            THEN /\ res' = [code |-> 404, body |-> Null]
                 /\ UNCHANGED orders
            ELSE /\ orders' = [orders EXCEPT ![idx].status = status,
                                             ![idx].updatedAt = Some(now)]
                 /\ res' = [code |-> 200, body |-> Some(orders'[idx])]
    /\ UNCHANGED <<menuItems, puts, menuFile, membersFile, ordersFile, menuData, now, membersBefore>>

\* app.put("/api/menu/:id", ...) of part_003, without an uploaded file
PutMenu3(id, body) ==
    LET idx == MenuIndex(menuData, JNum(id))
        old == menuData[idx]
        numPrice == ToNumber(body.price)
        item == [id |-> old.id,
                 name |-> IF body.name # Absent THEN body.name ELSE old.name,
                 price |-> IF body.price.t # "undef" /\ ~numPrice.nan
                           THEN numPrice.n ELSE old.price,
                 category |-> IF body.category # Absent
                              THEN body.category ELSE old.category,
                 image |-> IF body.image # Absent THEN body.image ELSE old.image]
    IN
    /\ req' = [op |-> "putmenu", body |-> [id |-> id, fields |-> body]]
    /\ IF idx = 0
       THEN /\ res' = [code |-> 404, body |-> Null]
            /\ UNCHANGED menuData
       ELSE /\ menuData' = [menuData EXCEPT ![idx] = item]
            /\ res' = [code |-> 200, body |-> Some(item)]
    /\ UNCHANGED <<menuItems, puts, menuFile, membersFile, ordersFile, orders, now, membersBefore>>

----------------------------------------------------------------------------
(* Requests of the model *)

NoItems == [t |-> "undef", a |-> <<>>]
ItemsArray(a) == [t |-> "arr", a |-> a]

OrderBody(items, totalAmount, mode, memberPhone, usePoints, via, paymentMethod) ==
    [items |-> items, totalAmount |-> totalAmount, mode |-> mode,
     table |-> IF mode = "dinein" THEN "A1" ELSE Absent,
     memberPhone |-> memberPhone, usePoints |-> usePoints,
     via |-> via, paymentMethod |-> paymentMethod, cashReceived |-> JUndef]

\* items: a non-empty array, an empty array, a missing field
ItemsInputs == {ItemsArray(<<"noodles">>), ItemsArray(<<>>), NoItems}
TotalInputs == {JNum(-150), JNum(1), JNum(250)}
UseInputs == {JNum(-1), JNum(1), JNum(5)}
Phones == {"0911"}

\* the requests that exercise the points settlement: every combination of the
\* totals, the redemptions and the member, two requests whose numbers are not
\* JSON numbers, and the requests without items
PointsBodies ==
    {OrderBody(ItemsArray(<<"noodles">>), t, "dinein", p, u, Absent, Absent) :
        t \in TotalInputs, p \in Phones \cup {Absent}, u \in UseInputs}
    \cup {OrderBody(ItemsArray(<<"noodles">>), JStr("abc"), "dinein", "0911",
                    JUndef, Absent, Absent),
          OrderBody(ItemsArray(<<"noodles">>), JStr("250"), "dinein", "0911",
                    JStr("2"), Absent, Absent)}
    \cup {OrderBody(i, JNum(250), "dinein", "0911", JNum(1), Absent, Absent) :
            i \in ItemsInputs}

\* the requests that exercise the status lifecycle
PaymentInputs ==
    {<<"CASHIER", "CASH">>, <<"CASHIER", Absent>>, <<"CUSTOMER", "CARD">>}
StatusBodies ==
    {OrderBody(ItemsArray(<<"noodles">>), JNum(250), "dinein", Absent, JUndef,
               vp[1], vp[2]) : vp \in PaymentInputs}
    \cup {OrderBody(NoItems, JNum(250), "dinein", Absent, JUndef, "CASHIER", "CASH")}
StatusInputs == VALID_STATUS \cup {Absent, "cancelled"}
OrderIdInputs == {generateOrderId(t) : t \in 0..MaxClock} \cup {<<"O", -1>>}

\* the requests that exercise the mode of an order: takeout, dine-in, no mode
ModeBodies ==
    {OrderBody(ItemsArray(<<"noodles">>), JNum(250), m, Absent, JUndef,
               Absent, Absent) : m \in {"takeout", "dinein", Absent}}
\* Math.floor(Math.random() * 90 + 10) lies in 10..99
RandDraws == {10, 99}

NoRequest == [op |-> "none", body |-> Null]
NoResponse == [code |-> 0, body |-> Null]

\* src/api/server.js starts on empty members.json and orders.json
Init ==
    /\ membersFile = <<>>
    /\ ordersFile = <<>>
    /\ menuFile = <<>>
    /\ menuItems = <<>>
    /\ puts = NoPuts
    /\ menuData = <<>>
    /\ orders = <<>>
    /\ now = 0
    /\ req = NoRequest
    /\ res = NoResponse
    /\ membersBefore = <<>>

\* part_003 starts on its six dishes and no order
Init3 ==
    /\ membersFile = <<>>
    /\ ordersFile = <<>>
    /\ menuFile = <<>>
    /\ menuItems = <<>>
    /\ puts = NoPuts
    /\ menuData = InitialMenu
    /\ orders = <<>>
    /\ now = 0
    /\ req = NoRequest
    /\ res = NoResponse
    /\ membersBefore = <<>>

\* the orders of these requests are dine-in orders, which draw no ticket number:
\* the random draw handed to PostOrder is not read
NextPoints ==
    \/ \E b \in PointsBodies : PostOrder(b, 10)
    \/ \E p \in Phones \cup {Absent} : MemberLookup(p, "Lin")
    \/ Tick

SpecPoints == Init /\ [][NextPoints]_vars

NextStatus ==
    \/ \E b \in StatusBodies : PostOrder(b, 10)
    \/ \E id \in OrderIdInputs, s \in StatusInputs : PatchStatus(id, s)
    \/ Tick

SpecStatus == Init /\ [][NextStatus]_vars


(* Requests to part_003 *)

Line(itemId, qty, extra) ==
    [itemId |-> JNum(itemId), name |-> "dish", basePrice |-> JNum(1),
     extraPricePerUnit |-> extra, qty |-> qty,
     removeKeys |-> <<>>, addKeys |-> <<>>]

OrderBody3(mode, items, totalAmount) ==
    [mode |-> mode, table |-> IF mode = "dinein" THEN "A1" ELSE Absent,
     items |-> items, totalAmount |-> totalAmount]

\* one dish; two dishes with a surcharge; a dish and an itemId that is not on
\* the menu; a quantity sent as text; only an unknown itemId; a negative
\* quantity; no line at all
ItemLists ==
    {ItemsArray(<<Line(1, JNum(1), JUndef)>>),
     ItemsArray(<<Line(1, JNum(2), JNum(10))>>),
     ItemsArray(<<Line(1, JNum(1), JUndef), Line(9, JNum(3), JUndef)>>),
     ItemsArray(<<Line(4, JStr("2"), JUndef), Line(2, JNum(1), JUndef)>>),
     ItemsArray(<<Line(9, JNum(1), JUndef)>>),
     ItemsArray(<<Line(1, JNum(-1), JUndef)>>),
     ItemsArray(<<>>)}
ClientTotals == {JUndef, JNum(1), JNum(150)}

PricingBodies ==
    {OrderBody3("dinein", i, t) : i \in ItemLists, t \in ClientTotals}

MenuPutInputs ==
    {[name |-> Absent, price |-> p, category |-> Absent, image |-> Absent] :
        p \in {JNum(200), JStr("abc")}}

TicketBodies ==
    {OrderBody3(m, i, JUndef) :
        m \in {"dinein", "takeout", "delivery", Absent},
        i \in {ItemsArray(<<Line(1, JNum(1), JUndef)>>),
               ItemsArray(<<Line(9, JNum(1), JUndef)>>)}}
StatusInputs3 == {"PAID", "FOO", Absent}
OrderIdInputs3 ==
    {generateOrderId3(t) : t \in 0..MaxClock} \cup {<<"ORD", 0, -1>>}

NextPricing ==
    \/ \E b \in PricingBodies : PostOrder3(b)
    \/ \E id \in {1, 9}, b \in MenuPutInputs : PutMenu3(id, b)
    \/ Tick

SpecPricing == Init3 /\ [][NextPricing]_vars

NextTickets ==
    \/ \E b \in TicketBodies : PostOrder3(b)
    \/ \E id \in OrderIdInputs3, s \in StatusInputs3 : PatchStatus3(id, s)
    \/ Tick

SpecTickets == Init3 /\ [][NextTickets]_vars


\* items sent as something that is not an array
ItemsNotArray == [t |-> "str", a |-> <<>>]
MemberPhones == {"0911", "0922"}
MemberNames == {"Lin", "Wu"}

\* the requests that exercise the member file: an order with a redemption for
\* either member or for none, and the orders without usable items
MemberBodies ==
    {OrderBody(ItemsArray(<<"noodles">>), JNum(250), "dinein", p, JNum(1),
               Absent, Absent) : p \in MemberPhones \cup {Absent}}
    \cup {OrderBody(i, JNum(250), "dinein", "0911", JNum(1), Absent, Absent) :
            i \in {ItemsArray(<<>>), NoItems, ItemsNotArray}}

NextMembers ==
    \/ \E b \in MemberBodies : PostOrder(b, 10)
    \/ \E p \in MemberPhones \cup {Absent}, n \in MemberNames : MemberLookup(p, n)
    \/ Tick

SpecMembers == Init /\ [][NextMembers]_vars


\* who placed the order and how it was paid: the three methods the cashier may
\* take, a method outside them, no method, a customer paying cash, and a
\* payment method without via
ViaAndMethod ==
    {<<"CASHIER", "CASH">>, <<"CASHIER", "CARD">>, <<"CASHIER", "LINEPAY">>,
     <<"CASHIER", "TRANSFER">>, <<"CASHIER", Absent>>, <<"CUSTOMER", "CASH">>,
     <<Absent, "LINEPAY">>, <<Absent, Absent>>}
PaymentBodies ==
    {OrderBody(ItemsArray(<<"noodles">>), JNum(250), "dinein", Absent, JUndef,
               vp[1], vp[2]) : vp \in ViaAndMethod}

NextPayment ==
    \/ \E b \in PaymentBodies : PostOrder(b, 10)
    \/ Tick

SpecPayment == Init /\ [][NextPayment]_vars


\* a dish at 150; a dish at 20; an itemId that is not on the menu; a quantity
\* of zero; a negative quantity; a surcharge below minus the price; a dish
\* outweighed by a negative quantity of another
TotalLists ==
    {ItemsArray(<<Line(1, JNum(1), JUndef)>>),
     ItemsArray(<<Line(4, JNum(1), JUndef)>>),
     ItemsArray(<<Line(9, JNum(1), JUndef)>>),
     ItemsArray(<<Line(1, JNum(0), JUndef)>>),
     ItemsArray(<<Line(1, JNum(-1), JUndef)>>),
     ItemsArray(<<Line(4, JNum(1), JNum(-30))>>),
     ItemsArray(<<Line(1, JNum(1), JUndef), Line(2, JNum(-2), JUndef)>>)}
TotalBodies ==
    {OrderBody3(m, i, JUndef) : m \in {"dinein", "takeout"}, i \in TotalLists}
\* the braised egg is given away, or priced again
FreePutInputs ==
    {[name |-> Absent, price |-> p, category |-> Absent, image |-> Absent] :
        p \in {JNum(0), JNum(20)}}

NextTotals ==
    \/ \E b \in TotalBodies : PostOrder3(b)
    \/ \E b \in FreePutInputs : PutMenu3(4, b)
    \/ Tick

SpecTotals == Init3 /\ [][NextTotals]_vars


(* Requests to the menu of src/api/server.js *)

MenuBody(name, price, tags, isActive) ==
    [name |-> name, price |-> price, category |-> Absent, image |-> Absent,
     description |-> Absent, tags |-> tags, spicy |-> JUndef, isHot |-> JUndef,
     isActive |-> isActive]

\* a body that carries every field
FullMenuBody ==
    [name |-> "tea", price |-> JNum(30), category |-> "drink", image |-> "",
     description |-> "iced", tags |-> TagsArray(<<"new">>), spicy |-> JNum(0),
     isHot |-> JBool(TRUE), isActive |-> JBool(FALSE)]

\* a new dish with every field; a dish with a name and a price only; a dish
\* without a name; a dish whose price is not a number
MenuPostInputs ==
    {FullMenuBody,
     MenuBody("soup", JStr("250"), NoTags, JUndef),
     MenuBody(Absent, JNum(30), NoTags, JUndef),
     MenuBody("soup", JStr("abc"), NoTags, JUndef)}

\* take a dish off the menu; put it back; a new name with a price that is not a
\* number; a new price with tags as text; an empty name with an empty price
MenuFilePutInputs ==
    {MenuBody(Absent, JUndef, NoTags, JBool(FALSE)),
     MenuBody(Absent, JUndef, NoTags, JNum(1)),
     MenuBody("stew", JStr("abc"), NoTags, JUndef),
     MenuBody(Absent, JNum(200), TagsText("hot, new"), JUndef),
     MenuBody("", JStr(""), NoTags, JUndef)}
MenuIdInputs == {1, 2, 9}
IncludeInactiveInputs == {"true", "false", Absent}

\* menu.json as POST /api/menu of the first variant left it: one dish with the
\* fields id, name, price, category, image and no others
LegacyMenu ==
    << [id |-> 1, name |-> "noodles", price |-> 100, category |-> "main",
        image |-> "", description |-> Absent, tags |-> Null, spicy |-> Null,
        isHot |-> Null, isActive |-> Null] >>

InitMenu ==
    /\ membersFile = <<>>
    /\ ordersFile = <<>>
    /\ menuFile = LegacyMenu
    /\ menuItems = <<>>
    /\ puts = NoPuts
    /\ menuData = <<>>
    /\ orders = <<>>
    /\ now = 0
    /\ req = NoRequest
    /\ res = NoResponse
    /\ membersBefore = <<>>

NextMenu ==
    \/ \E q \in IncludeInactiveInputs : GetMenu(q)
    \/ \E b \in MenuPostInputs : PostMenu(b)
    \/ \E id \in MenuIdInputs, b \in MenuFilePutInputs : PutMenu(id, b)
    \/ \E id \in MenuIdInputs : DeleteMenu(id)

SpecMenu == InitMenu /\ [][NextMenu]_vars


\* the requests that exercise the frame of a status update: a member's takeout
\* order with a redemption, and a dine-in order without a member
FrameBodies ==
    {OrderBody(ItemsArray(<<"noodles">>), JNum(250), "takeout", "0911", JNum(1),
               "CASHIER", "CASH"),
     OrderBody(ItemsArray(<<"noodles">>), JNum(250), "dinein", Absent, JUndef,
               Absent, Absent)}
FrameStatusInputs == {"COOKING", "DONE", "cancelled"}

NextFrame ==
    \/ \E b \in FrameBodies : PostOrder(b, 10)
    \/ \E id \in OrderIdInputs, st \in FrameStatusInputs : PatchStatus(id, st)
    \/ Tick

SpecFrame == Init /\ [][NextFrame]_vars


(* Requests to the menu of src/api/server.js in DB mode *)

\* a new name; a new price; the dish taken off the menu: one field each
DbPutInputs ==
    {MenuBody("stew", JUndef, NoTags, JUndef),
     MenuBody(Absent, JNum(200), NoTags, JUndef),
     MenuBody(Absent, JUndef, NoTags, JBool(FALSE))}
DbIdInputs == {1, 9}

\* table menu_items as POST /api/menu left it for {name: "noodles", price: 100,
\* category: "main"}
DbMenu ==
    << [id |-> 1, name |-> "noodles", price |-> 100, category |-> "main",
        image |-> NullStr, description |-> NullStr, tags |-> NullStr,
        spicy |-> FALSE, is_hot |-> FALSE, is_active |-> TRUE] >>

InitDb ==
    /\ membersFile = <<>>
    /\ ordersFile = <<>>
    /\ menuFile = <<>>
    /\ menuItems = DbMenu
    /\ puts = NoPuts
    /\ menuData = <<>>
    /\ orders = <<>>
    /\ now = 0
    /\ req = NoRequest
    /\ res = NoResponse
    /\ membersBefore = <<>>

NextDb ==
    \/ \E r \in 1..MaxPuts, id \in DbIdInputs, b \in DbPutInputs : PutSelect(r, id, b)
    \/ \E r \in 1..MaxPuts : PutUpdate(r)

SpecDb == InitDb /\ [][NextDb]_vars


ModeBodies3 ==
    {OrderBody3(m, ItemsArray(<<Line(1, JNum(1), JUndef)>>), JUndef) :
        m \in {"dinein", "takeout", "delivery"}}

\* both variants side by side, each taking orders of every mode
NextModes ==
    \/ \E b \in ModeBodies, r \in RandDraws : PostOrder(b, r)
    \/ \E b \in ModeBodies3 : PostOrder3(b)
    \/ Tick

SpecModes == Init3 /\ [][NextModes]_vars

----------------------------------------------------------------------------
(* The claims *)

Last(seq) == seq[Len(seq)]
Front(seq) == SubSeq(seq, 1, Len(seq) - 1)

\* the last request was a POST /api/order that src/api/server.js accepted
Accepted == req.op = "order" /\ res.code = 200 /\ Len(ordersFile) > 0
\* ... and it named a member
AcceptedNamed == Accepted /\ ~Falsy(req.body.memberPhone)

\* the points the stored member list holds for a phone; a phone without a record
\* has none
BalanceOf(members, phone) ==
    IF \E i \in 1..Len(members) : members[i].phone = phone
    THEN members[CHOOSE i \in 1..Len(members) : members[i].phone = phone].points
    ELSE 0

\* the number of points a request asks to redeem: a JSON number, the text of a
\* number, or nothing (no redemption)
Requested(v) ==
    IF v.t = "num" THEN v.n
    ELSE IF v.t = "str" /\ v.s = "2" THEN 2
    ELSE 0

\* C1: for every accepted order that names a member, the usedPoints recorded on
\* the order and returned in the response is the least of the requested
\* usePoints, the member's balance before the order and
\* floor(totalAmount / POINT_VALUE).
C1_UsedPointsIsMin ==
    AcceptedNamed =>
        LET o == Last(ordersFile)
            want == Requested(req.body.usePoints)
            balance == BalanceOf(membersBefore, req.body.memberPhone)
            byTotal == o.totalAmount \div POINT_VALUE
            least == CHOOSE x \in {want, balance, byTotal} :
                        \A y \in {want, balance, byTotal} : x <= y
        IN /\ o.usedPoints = least
           /\ res.body[1].member[1].usedPoints = least

\* C1 witness: a member with two points asks for five against a total of 1 and
\* redeems one point, fewer than asked and fewer than the balance
C1_Witness ==
    /\ AcceptedNamed
    /\ BalanceOf(membersBefore, req.body.memberPhone) = 2
    /\ req.body.usePoints = JNum(5)
    /\ Last(ordersFile).totalAmount = 1
    /\ Last(ordersFile).usedPoints = 1

\* C2 as stated: for every accepted order the recorded earnedPoints is
\* floor(finalTotal / POINT_PER_AMOUNT), whatever the totalAmount.
C2_Original ==
    Accepted =>
        Last(ordersFile).earnedPoints
            = Last(ordersFile).finalTotal \div POINT_PER_AMOUNT

\* C2 amended: for every accepted order the recorded earnedPoints is
\* floor(finalTotal / POINT_PER_AMOUNT) when the finalTotal after redemption is
\* positive and 0 when it is not; the finalTotal is the totalAmount less the
\* points redeemed.
C2_EarnedPoints ==
    Accepted =>
        LET o == Last(ordersFile) IN
        /\ o.finalTotal > 0 =>
              /\ o.earnedPoints * POINT_PER_AMOUNT <= o.finalTotal
              /\ o.finalTotal < (o.earnedPoints + 1) * POINT_PER_AMOUNT
        /\ o.finalTotal <= 0 => o.earnedPoints = 0
        /\ o.finalTotal = o.totalAmount
              - (IF o.usedPoints > 0 THEN o.usedPoints * POINT_VALUE ELSE 0)

\* C2 witness: an order whose redemption lowers the amount the points are
\* earned on (250 less 1 point earns 2)
C2_Witness ==
    /\ Accepted
    /\ Last(ordersFile).usedPoints > 0
    /\ Last(ordersFile).finalTotal < Last(ordersFile).totalAmount
    /\ Last(ordersFile).earnedPoints = 2

\* C3: for every accepted order that names a member, the stored balance after
\* the order is the balance before it minus the recorded usedPoints plus the
\* recorded earnedPoints, and the response's afterPoints is
\* beforePoints - usedPoints + earnedPoints.
C3_BalanceLedger ==
    AcceptedNamed =>
        LET o == Last(ordersFile)
            m == res.body[1].member[1]
            phone == req.body.memberPhone
        IN /\ BalanceOf(membersFile, phone)
                = BalanceOf(membersBefore, phone) - o.usedPoints + o.earnedPoints
           /\ m.afterPoints = m.beforePoints - m.usedPoints + m.earnedPoints

\* what POST /api/order would have left had the request carried another totalAmount
TwinOutcome(t) ==
    OrderHandler(membersBefore,
                 IF res.code = 200 THEN Front(ordersFile) ELSE ordersFile,
                 [req.body EXCEPT !.totalAmount = t], now, 10)

\* C4: the totals and the points of an order do not depend on the
\* client-submitted totalAmount: the same request with another totalAmount, on
\* the same stored state, records the same totalAmount, finalTotal, usedPoints
\* and earnedPoints and leaves the same member balances.
C4_IgnoresClientTotal ==
    req.op = "order" =>
        \A t \in TotalInputs :
            LET twin == TwinOutcome(t) IN
            /\ twin.res.code = res.code
            /\ twin.members = membersFile
            /\ res.code = 200 =>
                  /\ Last(twin.orders).totalAmount = Last(ordersFile).totalAmount
                  /\ Last(twin.orders).finalTotal = Last(ordersFile).finalTotal
                  /\ Last(twin.orders).usedPoints = Last(ordersFile).usedPoints
                  /\ Last(twin.orders).earnedPoints = Last(ordersFile).earnedPoints


\* the last request was a POST /api/order that part_003 accepted
Accepted3 == req.op = "order" /\ res.code = 200 /\ Len(orders) > 0

\* what POST /api/order of part_003 would have left had the request carried
\* another totalAmount
TwinOutcome3(t) ==
    OrderHandler3(menuData,
                  IF res.code = 200 THEN Front(orders) ELSE orders,
                  [req.body EXCEPT !.totalAmount = t], now)

\* C5: in part_003 the stored totalAmount does not depend on the
\* client-submitted totalAmount: the same request with another totalAmount, on
\* the same menu and order list, is accepted or rejected alike and stores the
\* same totalAmount.
C5_IgnoresClientTotal ==
    req.op = "order" =>
        \A t \in ClientTotals \cup {JNum(320), JNum(-5), JStr("abc")} :
            LET twin == TwinOutcome3(t) IN
            /\ twin.res.code = res.code
            /\ Len(twin.orders) = Len(orders)
            /\ res.code = 200 =>
                  Last(twin.orders).totalAmount = Last(orders).totalAmount

\* C5 witness: the client sent totalAmount 1 and the order stores 320
C5_Witness ==
    /\ Accepted3
    /\ req.body.totalAmount = JNum(1)
    /\ Last(orders).totalAmount = 320

\* the catalog price of an itemId, 0 for an itemId that is not on the menu
CatalogPrice(menu, itemId) ==
    LET hits == {i \in 1..Len(menu) : itemId.t = "num" /\ menu[i].id = itemId.n}
    IN IF hits = {} THEN 0 ELSE menu[CHOOSE i \in hits : TRUE].price

\* the menu holds the itemId
OnMenu(menu, itemId) ==
    \E i \in 1..Len(menu) : itemId.t = "num" /\ menu[i].id = itemId.n

\* a quantity or a surcharge as a number: a JSON number, the text "2", else 0
Amount(v) ==
    IF v.t = "num" THEN v.n ELSE IF v.t = "str" /\ v.s = "2" THEN 2 ELSE 0

\* C6 as stated: the totalAmount stored on an accepted order is the sum over the
\* request's lines of (catalog price of the itemId) x qty.
C6_Original ==
    Accepted3 =>
        LET lines == req.body.items.a
            sum[k \in 0..Len(lines)] ==
                IF k = 0 THEN 0
                ELSE sum[k - 1]
                       + CatalogPrice(menuData, lines[k].itemId) * Amount(lines[k].qty)
        IN Last(orders).totalAmount = sum[Len(lines)]

\* C6 amended: the totalAmount stored on an accepted order is the sum, over the
\* request's lines whose itemId is on the menu, of (catalog price when the
\* order is placed + the line's extraPricePerUnit) x qty; a line whose itemId is
\* not on the menu adds nothing.
C6_TotalIsPricedSum ==
    Accepted3 =>
        LET lines == req.body.items.a
            sum[k \in 0..Len(lines)] ==
                IF k = 0 THEN 0
                ELSE sum[k - 1]
                       + (IF OnMenu(menuData, lines[k].itemId)
                          THEN (CatalogPrice(menuData, lines[k].itemId)
                                  + Amount(lines[k].extraPricePerUnit))
                                 * Amount(lines[k].qty)
                          ELSE 0)
        IN Last(orders).totalAmount = sum[Len(lines)]

\* C6 witness: two dishes at the raised price of 200 with a surcharge of 10 each
C6_Witness ==
    /\ Accepted3
    /\ Len(req.body.items.a) = 1
    /\ req.body.items.a[1].extraPricePerUnit = JNum(10)
    /\ Last(orders).totalAmount = 420

\* C7: the status of every order stored by src/api/server.js is one of
\* PENDING_PAYMENT, PAID, COOKING, READY, DONE.
C7_StatusInEnum ==
    \A i \in 1..Len(ordersFile) :
        ordersFile[i].status \in {"PENDING_PAYMENT", "PAID", "COOKING", "READY", "DONE"}

\* C7 witness: a PATCH with a status outside the enum has just been answered
\* 400 while one order was put to DONE and another stands as created
C7_Witness ==
    /\ req.op = "patch" /\ req.body.status = "cancelled" /\ res.code = 400
    /\ \E i \in 1..Len(ordersFile) : ordersFile[i].status = "DONE"
    /\ \E i \in 1..Len(ordersFile) : ordersFile[i].status = "PAID"

\* C8: a PATCH that names a stored order and carries a status of the enum
\* succeeds, whatever the order's status, and leaves every stored order it
\* names with that status.
C8_AnyTransition ==
    (/\ req.op = "patch"
     /\ req.body.status \in VALID_STATUS
     /\ \E i \in 1..Len(ordersFile) : ordersFile[i].orderId = req.body.orderId)
    => /\ res.code = 200
       /\ \A i \in 1..Len(ordersFile) :
             ordersFile[i].orderId = req.body.orderId
                => ordersFile[i].status = req.body.status

\* C9: the status of every order stored by part_003 is one of PENDING_PAYMENT,
\* PAID, COOKING, READY, DONE, or cancelled.
C9_StatusInEnum3 ==
    \A i \in 1..Len(orders) :
        orders[i].status \in
            {"PENDING_PAYMENT", "PAID", "COOKING", "READY", "DONE", "cancelled"}

\* C10: in part_003 the k-th stored takeout order carries ticketNo k, whatever
\* dine-in orders, rejected requests and order ids lie between, so the ticket
\* numbers of the takeout orders are distinct and strictly increasing.
C10_TicketSequence ==
    /\ \A i \in 1..Len(orders) :
          orders[i].mode = "takeout" =>
             orders[i].ticketNo
                = Some(Cardinality({j \in 1..i : orders[j].mode = "takeout"}))
    /\ \A i, j \in 1..Len(orders) :
          (i < j /\ orders[i].mode = "takeout" /\ orders[j].mode = "takeout")
             => orders[i].ticketNo[1] < orders[j].ticketNo[1]

\* C10 witness: a dine-in order, then a takeout order with the same orderId,
\* which carries ticket 1, and a rejected request after them
C10_Witness ==
    /\ Len(orders) = 2
    /\ orders[1].mode = "dinein" /\ orders[2].mode = "takeout"
    /\ orders[1].orderId = orders[2].orderId
    /\ orders[2].ticketNo = Some(1)
    /\ req.op = "order" /\ res.code = 400


\* C11: no two takeout orders stored by src/api/server.js carry the same
\* ticketNo, whatever the clock readings and the random draws.
C11_TicketsDistinct ==
    \A i, j \in 1..Len(ordersFile) :
        (i < j /\ ordersFile[i].ticketNo # Null /\ ordersFile[j].ticketNo # Null)
            => ordersFile[i].ticketNo # ordersFile[j].ticketNo

\* a stored order has a ticketNo exactly when it is a takeout order and a table
\* exactly when it is a dine-in order
TicketAndTableFollowMode(o) ==
    /\ o.ticketNo # Null <=> o.mode = "takeout"
    /\ o.table # NullStr <=> o.mode = "dinein"

\* C12: in both variants a stored order has a non-null ticketNo exactly when
\* its mode is "takeout" and a non-null table exactly when its mode is "dinein".
C12_TicketAndTable ==
    /\ \A i \in 1..Len(ordersFile) : TicketAndTableFollowMode(ordersFile[i])
    /\ \A i \in 1..Len(orders) : TicketAndTableFollowMode(orders[i])

\* C12 witness: src/api/server.js holds a takeout order and an order without a
\* mode, part_003 holds a dine-in order and a takeout order
C12_Witness ==
    /\ \E i \in 1..Len(ordersFile) : ordersFile[i].mode = "takeout"
    /\ \E i \in 1..Len(ordersFile) : ordersFile[i].mode = NullStr
    /\ \E i \in 1..Len(orders) : orders[i].mode = "dinein"
    /\ \E i \in 1..Len(orders) : orders[i].mode = "takeout"


\* C13: the member file of src/api/server.js never holds two records with the
\* same phone, whatever lookups and orders were made from an empty file.
C13_PhonesDistinct ==
    \A i, j \in 1..Len(membersFile) :
        i < j => membersFile[i].phone # membersFile[j].phone

\* C13 witness: with two members on file, an order was accepted for a member
\* who was already there
C13_Witness ==
    /\ Len(membersBefore) = 2
    /\ Len(membersFile) = 2
    /\ req.op = "order"
    /\ res.code = 200
    /\ \E i \in 1..2 : membersBefore[i].phone = req.body.memberPhone

\* items is missing, not an array, or an empty array
BadItems(items) == items.t # "arr" \/ items.a = <<>>

\* C14: a POST /api/order without usable items is answered 400 and leaves the
\* member file and the order file as they were.
C14_RejectedChangesNothing ==
    [][(req'.op = "order" /\ BadItems(req'.body.items))
        => /\ res'.code = 400
           /\ membersFile' = membersFile
           /\ ordersFile' = ordersFile]_vars

\* C14 witness: an order without usable items, naming a member who has points
\* and asking to redeem one, was answered 400 and the member file is as before
C14_Witness ==
    /\ req.op = "order"
    /\ BadItems(req.body.items)
    /\ res.code = 400
    /\ req.body.usePoints = JNum(1)
    /\ \E i \in 1..Len(membersFile) :
          /\ membersFile[i].phone = req.body.memberPhone
          /\ membersFile[i].points > 0
    /\ membersFile = membersBefore

\* the records on file for a phone
RecordsOf(members, phone) ==
    {i \in 1..Len(members) : members[i].phone = phone}

\* C17: an answered lookup of a phone on file returns the stored record and
\* leaves the member file unchanged; an answered lookup of an unknown phone
\* appends exactly one record, with points 0, and returns it.
C17_LookupIdempotent ==
    [][(req'.op = "lookup" /\ res'.code = 200)
        => LET phone == req'.body.phone
               known == RecordsOf(membersFile, phone)
           IN IF known # {}
              THEN /\ membersFile' = membersFile
                   /\ \E i \in known : res'.body = Some(membersFile[i])
              ELSE /\ Len(membersFile') = Len(membersFile) + 1
                   /\ Front(membersFile') = membersFile
                   /\ Last(membersFile').phone = phone
                   /\ Last(membersFile').points = 0
                   /\ res'.body = Some(Last(membersFile'))]_vars

\* C17 witness: a lookup under another name of a member who has points was
\* answered with the stored record, which kept its name and its points
C17_Witness ==
    /\ req.op = "lookup"
    /\ res.code = 200
    /\ membersFile = membersBefore
    /\ \E i \in 1..Len(membersFile) :
          /\ membersFile[i].phone = req.body.phone
          /\ membersFile[i].points > 0
          /\ membersFile[i].name = "Lin"
          /\ req.body.name = "Wu"
          /\ res.body = Some(membersFile[i])


\* C15: the order an accepted POST /api/order has just stored is PAID exactly
\* when the request's via is "CASHIER" and its paymentMethod is CASH, CARD or
\* LINEPAY, and PENDING_PAYMENT in every other case.
C15_InitialStatus ==
    Accepted =>
        LET status == Last(ordersFile).status
            cashierPaid == /\ req.body.via = "CASHIER"
                           /\ \/ req.body.paymentMethod = "CASH"
                              \/ req.body.paymentMethod = "CARD"
                              \/ req.body.paymentMethod = "LINEPAY"
        IN /\ status = "PAID" <=> cashierPaid
           /\ status = "PENDING_PAYMENT" <=> ~cashierPaid

\* C15 witness: the cashier's LINEPAY order was stored as PAID after the
\* cashier's order without a payment method was stored as PENDING_PAYMENT
C15_Witness ==
    /\ Accepted
    /\ req.body.via = "CASHIER"
    /\ req.body.paymentMethod = "LINEPAY"
    /\ Len(ordersFile) = 2
    /\ ordersFile[2].status = "PAID"
    /\ ordersFile[1].via = "CASHIER"
    /\ ordersFile[1].paymentMethod = NullStr
    /\ ordersFile[1].status = "PENDING_PAYMENT"


\* C16: a PATCH without a status or with a status outside VALID_STATUS is
\* answered 400, a PATCH with a valid status for an orderId that no stored order
\* has is answered 404, and a PATCH that is not answered 200 leaves the order
\* file as it was.
C16_RejectedPatch ==
    [][req'.op = "patch"
        => LET status == req'.body.status
               bad == status = Absent \/ status \notin VALID_STATUS
               unknown == \A i \in 1..Len(ordersFile) :
                             ordersFile[i].orderId # req'.body.orderId
           IN /\ bad => res'.code = 400
              /\ (~bad /\ unknown) => res'.code = 404
              /\ res'.code # 200 => ordersFile' = ordersFile]_vars

\* C16 witness: a PATCH to a status outside VALID_STATUS, aimed at a stored
\* order, was answered 400 while another order is stored beside it
C16_Witness ==
    /\ req.op = "patch"
    /\ req.body.status = "cancelled"
    /\ res.code = 400
    /\ Len(ordersFile) = 2
    /\ ordersFile[1].orderId = req.body.orderId
    /\ ordersFile[1].status = "PAID"


\* the total of the lines of a request at the menu's prices: (price +
\* extraPricePerUnit) x qty for each line whose itemId is on the menu
PricedSum(menu, lines) ==
    LET sum[k \in 0..Len(lines)] ==
            IF k = 0 THEN 0
            ELSE sum[k - 1]
                   + (IF OnMenu(menu, lines[k].itemId)
                      THEN (CatalogPrice(menu, lines[k].itemId)
                              + Amount(lines[k].extraPricePerUnit))
                             * Amount(lines[k].qty)
                      ELSE 0)
    IN sum[Len(lines)]

\* C20: every order stored by part_003 has totalAmount > 0, and an order
\* request for dine-in or takeout whose lines total zero or less is answered 400
\* and leaves the orders, and with them the next ticket number, as they were.
C20_TotalPositive ==
    /\ [](\A i \in 1..Len(orders) : orders[i].totalAmount > 0)
    /\ [][(/\ req'.op = "order"
           /\ req'.body.mode \in {"dinein", "takeout"}
           /\ req'.body.items.t = "arr"
           /\ PricedSum(menuData, req'.body.items.a) <= 0)
          => /\ res'.code = 400
             /\ orders' = orders]_vars

\* C20 witness: with ticket 1 given out, a takeout request whose surcharge
\* brings the total below zero was answered 400 and ticket 1 is still the last
C20_Witness ==
    /\ req.op = "order"
    /\ req.body.mode = "takeout"
    /\ Len(req.body.items.a) = 1
    /\ req.body.items.a[1].extraPricePerUnit = JNum(-30)
    /\ PricedSum(menuData, req.body.items.a) < 0
    /\ res.code = 400
    /\ Len(orders) = 1
    /\ orders[1].ticketNo = Some(1)


\* a price that Number() turns into NaN: a text that is neither empty nor a
\* numeral
NotANumber(price) ==
    price.t = "str" /\ price.s # "" /\ price.s \notin DecimalStrings

\* C18: a PUT /api/menu/:id on an id the menu does not hold is answered 404 and
\* leaves the menu unchanged; a PUT on a stored item leaves every other item
\* unchanged, keeps the item's id, keeps every field the body does not carry,
\* and keeps the price when the body's price is not a number.
C18_PutKeepsTheRest ==
    [][req'.op = "putmenu"
        => LET id == req'.body.id
               b == req'.body.fields
               hits == {i \in 1..Len(menuFile) : menuFile[i].id = id}
           IN IF hits = {}
              THEN res'.code = 404 /\ menuFile' = menuFile
              ELSE \E i \in hits :
                    LET old == menuFile[i]
                        new == menuFile'[i]
                    IN /\ Len(menuFile') = Len(menuFile)
                       /\ \A j \in 1..Len(menuFile) :
                             j # i => menuFile'[j] = menuFile[j]
                       /\ new.id = old.id
                       /\ b.name = Absent => new.name = old.name
                       /\ b.price.t = "undef" => new.price = old.price
                       /\ NotANumber(b.price) => new.price = old.price
                       /\ b.category = Absent => new.category = old.category
                       /\ b.image = Absent => new.image = old.image
                       /\ b.description = Absent => new.description = old.description
                       /\ b.tags.t = "undef" => new.tags = old.tags
                       /\ b.spicy.t = "undef" => new.spicy = old.spicy
                       /\ b.isHot.t = "undef" => new.isHot = old.isHot
                       /\ b.isActive.t = "undef" => new.isActive = old.isActive]_vars

\* C18 witness: a PUT that renamed the second of two dishes and carried a price
\* that is not a number was answered 200; the dish kept its price of 30 and its
\* other fields, and the first dish is as it was
C18_Witness ==
    /\ req.op = "putmenu"
    /\ req.body.id = 2
    /\ req.body.fields.name = "stew"
    /\ NotANumber(req.body.fields.price)
    /\ res.code = 200
    /\ Len(menuFile) = 2
    /\ menuFile[1] = LegacyMenu[1]
    /\ menuFile[2].id = 2
    /\ menuFile[2].name = "stew"
    /\ menuFile[2].price = 30
    /\ menuFile[2].category = "drink"
    /\ menuFile[2].isActive = Some(FALSE)

\* C19: GET /api/menu answers with every stored item when includeInactive is
\* "true" and otherwise with the stored items whose isActive is not false, in
\* their stored order, and leaves the stored menu unchanged.
C19_ListingHidesInactive ==
    [][req'.op = "getmenu"
        => /\ menuFile' = menuFile
           /\ res'.code = 200
           /\ res'.body =
                Some(IF req'.body.includeInactive = "true" THEN menuFile
                     ELSE SelectSeq(menuFile,
                                    LAMBDA item : item.isActive # Some(FALSE)))]_vars

\* C19 witness: a GET without includeInactive listed the dish that has no
\* isActive field and left out the dish a PUT had made inactive
C19_Witness ==
    /\ req.op = "getmenu"
    /\ req.body.includeInactive = Absent
    /\ Len(menuFile) = 2
    /\ menuFile[1].isActive = Null
    /\ menuFile[2].name = "soup"
    /\ menuFile[2].isActive = Some(FALSE)
    /\ res.body = Some(<<menuFile[1]>>)


\* C21: every member stored by src/api/server.js has points >= 0, whatever
\* usePoints and totalAmount the orders carried.
C21_PointsNotNegative ==
    \A i \in 1..Len(membersFile) : membersFile[i].points >= 0

\* C21 witness: a member with two points asked to redeem five against a total
\* of 250; two were taken and the balance did not go below zero
C21_Witness ==
    /\ AcceptedNamed
    /\ BalanceOf(membersBefore, req.body.memberPhone) = 2
    /\ req.body.usePoints = JNum(5)
    /\ Last(ordersFile).totalAmount = 250
    /\ Last(ordersFile).usedPoints = 2
    /\ BalanceOf(membersFile, req.body.memberPhone) >= 0

\* the sum over the stored orders of a phone of (earnedPoints - usedPoints)
LedgerOf(stored, phone) ==
    LET sum[k \in 0..Len(stored)] ==
            IF k = 0 THEN 0
            ELSE sum[k - 1]
                   + (IF stored[k].memberPhone = phone
                      THEN stored[k].earnedPoints - stored[k].usedPoints
                      ELSE 0)
    IN sum[Len(stored)]

\* C22: each stored member's points equals the sum, over the stored orders with
\* that memberPhone, of (earnedPoints - usedPoints).
C22_PointsLedger ==
    \A i \in 1..Len(membersFile) :
        membersFile[i].points = LedgerOf(ordersFile, membersFile[i].phone)

\* C23: every stored order whose totalAmount is not negative has
\* 0 <= finalTotal <= totalAmount.
C23_FinalTotalInRange ==
    \A i \in 1..Len(ordersFile) :
        ordersFile[i].totalAmount >= 0 =>
            /\ 0 <= ordersFile[i].finalTotal
            /\ ordersFile[i].finalTotal <= ordersFile[i].totalAmount

\* C23 witness: a member with two points asked to redeem five against a total
\* of 1; one point was taken and nothing is due
C23_Witness ==
    /\ AcceptedNamed
    /\ BalanceOf(membersBefore, req.body.memberPhone) = 2
    /\ req.body.usePoints = JNum(5)
    /\ Last(ordersFile).totalAmount = 1
    /\ Last(ordersFile).finalTotal = 0


\* C24: no two orders stored by src/api/server.js have the same orderId, and no
\* two orders stored by part_003 have the same orderId.
C24_OrderIdsDistinct ==
    /\ \A i, j \in 1..Len(ordersFile) :
          i < j => ordersFile[i].orderId # ordersFile[j].orderId
    /\ \A i, j \in 1..Len(orders) :
          i < j => orders[i].orderId # orders[j].orderId

\* C25: no two items of the stored menu share an id, and the item an accepted
\* POST /api/menu appends has an id greater than the id of every item that was
\* stored when the request arrived.
C25_MenuIdsDistinct ==
    /\ [](\A i, j \in 1..Len(menuFile) :
            i < j => menuFile[i].id # menuFile[j].id)
    /\ [][(req'.op = "postmenu" /\ res'.code = 201)
          => /\ Len(menuFile') = Len(menuFile) + 1
             /\ \A i \in 1..Len(menuFile) :
                   Last(menuFile').id > menuFile[i].id]_vars

\* C25 witness: a POST /api/menu was answered 201 and its dish stands second,
\* with id 2, behind the first dish, which a PUT had renamed
C25_Witness ==
    /\ req.op = "postmenu"
    /\ res.code = 201
    /\ Len(menuFile) = 2
    /\ menuFile[1].id = 1
    /\ menuFile[1].name = "stew"
    /\ menuFile[2].id = 2
    /\ res.body = Some(menuFile[2])


\* C26: a PATCH /api/orders/:orderId/status answered 200 leaves the member file
\* unchanged and changes the order file in the status of one order with that
\* orderId and in nothing else.
C26_PatchChangesStatusOnly ==
    [][(req'.op = "patch" /\ res'.code = 200)
        => /\ membersFile' = membersFile
           /\ \E i \in 1..Len(ordersFile) :
                 /\ ordersFile[i].orderId = req'.body.orderId
                 /\ ordersFile' =
                      [ordersFile EXCEPT ![i].status = req'.body.status]]_vars

\* C26 witness: a PATCH to COOKING of the first of two orders, a member's
\* takeout order that redeemed and earned points, was answered 200; the order
\* kept its ticket and its points, and the second order its status
C26_Witness ==
    /\ req.op = "patch"
    /\ res.code = 200
    /\ req.body.status = "COOKING"
    /\ Len(ordersFile) = 2
    /\ ordersFile[1].orderId = req.body.orderId
    /\ ordersFile[2].orderId # req.body.orderId
    /\ ordersFile[1].status = "COOKING"
    /\ ordersFile[1].ticketNo # Null
    /\ ordersFile[1].memberPhone = "0911"
    /\ ordersFile[1].earnedPoints = 2
    /\ ordersFile[2].usedPoints = 1
    /\ ordersFile[2].status = "PAID"
    /\ BalanceOf(membersFile, "0911") = 3


\* the fields a PUT body carries
Supplies(body) ==
    {f \in {"name"} : ~Falsy(body.name)}
    \cup {f \in {"price"} : body.price.t # "undef"}
    \cup {f \in {"is_active"} : body.isActive.t # "undef"}

\* C27: when exactly two PUT /api/menu/:id requests on the same id, one
\* carrying only a name and the other only a price, have both been answered
\* 200, the row has the name of the one and the price of the other; and an
\* UPDATE leaves the name, the price and is_active as it finds them in the row
\* when its request does not carry them.
C27_NoLostUpdate ==
    /\ [](\A r1, r2 \in 1..MaxPuts :
            (/\ r1 # r2
             /\ \A r \in 1..MaxPuts : r \notin {r1, r2} => puts[r].pc = "idle"
             /\ puts[r1].pc = "done" /\ puts[r1].res.code = 200
             /\ puts[r2].pc = "done" /\ puts[r2].res.code = 200
             /\ puts[r1].id = puts[r2].id
             /\ Supplies(puts[r1].body[1]) = {"name"}
             /\ Supplies(puts[r2].body[1]) = {"price"})
            => LET row == menuItems[RowIndex(menuItems, puts[r1].id)] IN
               /\ row.name = puts[r1].body[1].name
               /\ row.price = puts[r2].body[1].price.n)
    /\ [][\A r \in 1..MaxPuts :
            (puts[r].pc = "selected" /\ puts'[r].pc = "done"
                /\ puts'[r].res.code = 200)
            => LET i == RowIndex(menuItems, puts[r].id)
                   given == Supplies(puts[r].body[1])
               IN /\ "name" \notin given => menuItems'[i].name = menuItems[i].name
                  /\ "price" \notin given => menuItems'[i].price = menuItems[i].price
                  /\ "is_active" \notin given
                        => menuItems'[i].is_active = menuItems[i].is_active]_vars


====
